---- MODULE Spec2Model ----
(***************************************************************************)
(* Model of src/server.js: the room registry, the per-room game state, the *)
(* four socket handlers (joinRoom, startGame, answer, disconnect) and the  *)
(* deferred round advance scheduled with setTimeout.                       *)
(*                                                                         *)
(* Node runs every handler and every timer callback to completion on one   *)
(* thread, so each handler is one atomic action.                           *)
(***************************************************************************)
EXTENDS Integers, Sequences, FiniteSets, TLC

\* ------------------------------------------------------------------ bounds
NumSockets == 2
NumRooms == 2
BankSize == 2
MaxQuestions == 2
OptionBankSize == 5

\* ------------------------------------------------------- program constants
GameLength == 10
WrongOptions == 3

\* ------------------------------------------------------------ value spaces
SocketNames == <<"s1", "s2", "s3", "s4">>
RoomNames == <<"r1", "r2", "r3", "r4">>
TitleNames == <<"A", "B", "C", "D", "E", "F">>

Sockets == {SocketNames[i] : i \in 1..NumSockets}
RoomIds == {RoomNames[i] : i \in 1..NumRooms}
PlayerNames == {"ann"}
OptionIndexes == 0..WrongOptions

NoSocket == "null"
NoRoomId == "undefined"
NoName == ""
NoIndex == -1

Song(i) == [title |-> TitleNames[i], audioUrl |-> "/audio/" \o TitleNames[i]]
Banks == {[i \in 1..n |-> Song(i)] : n \in 0..BankSize}

NullQuestion ==
    [title |-> "", audioUrl |-> "", correctIndex |-> NoIndex,
     winnerSocketId |-> NoSocket]

VARIABLES
    songs,       \* the question bank built by initSongDatabase
    rooms,       \* the Map rooms: roomId -> room object
    conn,        \* per socket: "new" (not yet connected), "open", "closed"
    socketData,  \* per socket: socket.data
    timers,      \* pending setTimeout callbacks, oldest first
    out,         \* the events emitted by the handler that ran last
    last,        \* the inbound event (or timer firing) that ran last
    obs,         \* per room id: what an observer of the room has counted
    questionsDrawn \* total length of the gameQuestions drawn so far

vars ==
    <<songs, rooms, conn, socketData, timers, out, last, obs, questionsDrawn>>

\* ----------------------------------------------------------------- helpers
Min(a, b) == IF a < b THEN a ELSE b

\* arr.slice(0, n)
Slice(arr, n) == SubSeq(arr, 1, Min(n, Len(arr)))

\* Swap that writes arr[j] to position i and forgets the other half.
SwapLossy(arr, i, j) == [arr EXCEPT ![i] = arr[j]]

Swap(arr, i, j) == [arr EXCEPT ![i] = arr[j], ![j] = arr[i]]

\* The values Math.floor(Math.random() * (i + 1)) can take for every i of the
\* loop of shuffle (1-based here: position i draws j in 1..i).
ShuffleChoices(n) == {js \in [2..n -> 1..n] : \A i \in 2..n : js[i] <= i}

RECURSIVE ShuffleFrom(_, _, _)
ShuffleFrom(arr, i, js) ==
    IF i <= 1 THEN arr ELSE ShuffleFrom(Swap(arr, i, js[i]), i - 1, js)

\* shuffle(arr) for the random draws js
Shuffle(arr, js) == ShuffleFrom(arr, Len(arr), js)

Shuffles(arr) == {Shuffle(arr, js) : js \in ShuffleChoices(Len(arr))}

\* arr.indexOf(x), 0-based, -1 when absent
IndexOf(arr, x) ==
    IF \E i \in DOMAIN arr : arr[i] = x
    THEN (CHOOSE i \in DOMAIN arr :
              arr[i] = x /\ \A k \in 1..(i - 1) : arr[k] # x) - 1
    ELSE NoIndex

\* SeqFilter that keeps every title, the correct one included.
SeqFilterNone(arr, x) == arr

SeqFilter(arr, x) == SelectSeq(arr, LAMBDA t : t # x)

\* generateOptions(correctTitle): every result the two shuffles can produce
GenerateOptions(bank, correctTitle) ==
    LET titles == SeqFilter([i \in DOMAIN bank |-> bank[i].title], correctTitle)
    IN  UNION {
          LET wrong == Slice(shuffled, WrongOptions)
          IN  {[options |-> options,
                correctIndex |-> IndexOf(options, correctTitle)] :
                  options \in Shuffles(<<correctTitle>> \o wrong)} :
          shuffled \in Shuffles(titles)}

\* ------------------------------------------------------- the players object
\* room.players is a JS object; Object.keys lists its string keys in insertion
\* order, so it is kept as a sequence of entries [id, name, score].
Keys(players) == [i \in DOMAIN players |-> players[i].id]

PlayerIds(players) == {players[i].id : i \in DOMAIN players}

HasPlayer(players, id) == id \in PlayerIds(players)

PlayerAt(players, id) == CHOOSE i \in DOMAIN players : players[i].id = id

\* SetPlayer that keeps the score of an entry that already exists.
SetPlayerKeepScore(players, id, name) ==
    IF HasPlayer(players, id)
    THEN [players EXCEPT ![PlayerAt(players, id)].name = name]
    ELSE Append(players, [id |-> id, name |-> name, score |-> 0])

\* players[id] = {name, score: 0}
SetPlayer(players, id, name) ==
    LET entry == [id |-> id, name |-> name, score |-> 0]
    IN  IF HasPlayer(players, id)
        THEN [players EXCEPT ![PlayerAt(players, id)] = entry]
        ELSE Append(players, entry)

\* delete players[id]
DeletePlayer(players, id) == SelectSeq(players, LAMBDA p : p.id # id)

RECURSIVE SumScores(_)
SumScores(players) ==
    IF players = <<>> THEN 0
    ELSE Head(players).score + SumScores(Tail(players))

\* ---------------------------------------------------------------- registry
\* NewRoom created with the round flag already set.
NewRoomActive ==
    [hostId |-> NoSocket, players |-> <<>>, gameQuestions |-> <<>>,
     gameIndex |-> 0, currentQuestion |-> NullQuestion, roundActive |-> TRUE]

NewRoom ==
    [hostId |-> NoSocket, players |-> <<>>, gameQuestions |-> <<>>,
     gameIndex |-> 0, currentQuestion |-> NullQuestion, roundActive |-> FALSE]

\* rooms.set(roomId, room)
RoomsSet(rms, roomId, room) ==
    [r \in DOMAIN rms \cup {roomId} |-> IF r = roomId THEN room ELSE rms[r]]

\* RoomsDelete that leaves the entry in the registry.
RoomsDeleteNothing(rms, roomId) == rms

\* rooms.delete(roomId)
RoomsDelete(rms, roomId) == [r \in DOMAIN rms \ {roomId} |-> rms[r]]

getOrCreateRoom(rms, roomId) ==
    IF roomId \in DOMAIN rms THEN rms ELSE RoomsSet(rms, roomId, NewRoom)

\* ------------------------------------------------------------------ events
NoEvent == [kind |-> "none", sock |-> NoSocket, roomId |-> NoRoomId,
            name |-> NoName, optionIndex |-> NoIndex]

Inbound(kind, sock, roomId, name, optionIndex) ==
    [kind |-> kind, sock |-> sock, roomId |-> roomId, name |-> name,
     optionIndex |-> optionIndex]

Count(events, type, to) ==
    Len(SelectSeq(events, LAMBDA e : e.type = type /\ e.to = to))

NoObs == [started |-> FALSE, questions |-> 0, gameEnds |-> 0,
          roundResults |-> 0, startScore |-> 0, steady |-> FALSE]

\* -------------------------------------------------------------------- Init
Init ==
    /\ songs \in Banks
    /\ rooms = <<>>
    /\ conn = [s \in Sockets |-> "new"]
    /\ socketData = [s \in Sockets |-> [roomId |-> NoRoomId]]
    /\ timers = <<>>
    /\ out = <<>>
    /\ last = NoEvent
    /\ obs = [r \in RoomIds |-> NoObs]
    /\ questionsDrawn = 0

\* io.on('connection')
Connect(s) ==
    /\ conn[s] = "new"
    /\ conn' = [conn EXCEPT ![s] = "open"]
    /\ out' = <<>>
    /\ last' = Inbound("connection", s, NoRoomId, NoName, NoIndex)
    /\ UNCHANGED <<songs, rooms, socketData, timers, obs, questionsDrawn>>

\* socket.on('joinRoom')
JoinRoom(s, roomId, name) ==
    /\ conn[s] = "open"
    /\ LET rms == getOrCreateRoom(rooms, roomId)
           room == rms[roomId]
           hostId == IF room.hostId = NoSocket THEN s ELSE room.hostId
           players == SetPlayer(room.players, s, name)
       IN  /\ rooms' = RoomsSet(rms, roomId,
                           [room EXCEPT !.hostId = hostId, !.players = players])
           /\ out' = <<[type |-> "roomState", to |-> roomId, roomId |-> roomId,
                        hostId |-> hostId, players |-> players]>>
    /\ socketData' = [socketData EXCEPT ![s].roomId = roomId]
    /\ last' = Inbound("joinRoom", s, roomId, name, NoIndex)
    /\ obs' = [obs EXCEPT ![roomId].steady = FALSE]
    /\ UNCHANGED <<songs, conn, timers, questionsDrawn>>

\* The draws generateOptions may make when startNextRound(roomId) runs on rms
\* (one dummy draw when it returns before calling generateOptions).
NoOptions == [options |-> <<>>, correctIndex |-> NoIndex]

RoundChoices(rms, roomId) ==
    IF /\ roomId \in DOMAIN rms
       /\ rms[roomId].gameIndex < Len(rms[roomId].gameQuestions)
    THEN GenerateOptions(songs,
             rms[roomId].gameQuestions[rms[roomId].gameIndex + 1].title)
    ELSE {NoOptions}

\* QuestionIndex without the increment of line 107.
QuestionIndexNoIncrement(gameIndex) == gameIndex

\* The index startNextRound puts in the question event: room.gameIndex after
\* the increment.
QuestionIndex(gameIndex) == gameIndex + 1

\* startNextRound(roomId) on the registry rms, gen being the result of its
\* call of generateOptions: the registry afterwards and the events emitted.
StartNextRound(rms, roomId, gen) ==
    IF roomId \notin DOMAIN rms
    THEN [rooms |-> rms, events |-> <<>>]
    ELSE LET room == rms[roomId] IN
         IF room.gameIndex >= Len(room.gameQuestions)
         THEN [rooms |-> rms,
               events |-> <<[type |-> "gameEnd", to |-> roomId,
                             players |-> room.players]>>]
         ELSE LET song == room.gameQuestions[room.gameIndex + 1]
                  gameIndex == QuestionIndex(room.gameIndex)
                  q == [title |-> song.title, audioUrl |-> song.audioUrl,
                        correctIndex |-> gen.correctIndex,
                        winnerSocketId |-> NoSocket]
              IN  [rooms |-> RoomsSet(rms, roomId,
                                [room EXCEPT !.gameIndex = gameIndex,
                                             !.currentQuestion = q,
                                             !.roundActive = TRUE]),
                   events |-> <<[type |-> "question", to |-> roomId,
                                 audioUrl |-> song.audioUrl,
                                 options |-> gen.options,
                                 index |-> gameIndex,
                                 total |-> Len(room.gameQuestions)]>>]

\* StartGameIgnored without the host check of line 152.
StartGameIgnoredNoHostCheck(rms, roomId, s) == roomId \notin DOMAIN rms

\* The guard of startGame: the room is absent or the caller is not its host.
StartGameIgnored(rms, roomId, s) ==
    roomId \notin DOMAIN rms \/ rms[roomId].hostId # s

\* socket.on('startGame')
StartGame(s) ==
    /\ conn[s] = "open"
    /\ last' = Inbound("startGame", s, NoRoomId, NoName, NoIndex)
    /\ LET roomId == socketData[s].roomId IN
       IF StartGameIgnored(rooms, roomId, s)
       THEN /\ out' = <<>>
            /\ UNCHANGED <<rooms, obs, questionsDrawn>>
       ELSE /\ questionsDrawn + Min(GameLength, Len(songs)) <= MaxQuestions
            /\ \E shuffled \in Shuffles(songs) :
                LET room == rooms[roomId]
                    gameQuestions == Slice(shuffled, GameLength)
                    rms == RoomsSet(rooms, roomId,
                               [room EXCEPT !.gameQuestions = gameQuestions,
                                            !.gameIndex = 0])
                IN  \E gen \in RoundChoices(rms, roomId) :
                    LET res == StartNextRound(rms, roomId, gen) IN
                    /\ rooms' = res.rooms
                    /\ out' = <<[type |-> "gameStart", to |-> roomId,
                                 total |-> Len(gameQuestions)]>> \o res.events
                    /\ obs' = [obs EXCEPT ![roomId] =
                                 [started |-> TRUE,
                                  questions |-> Count(res.events, "question", roomId),
                                  gameEnds |-> Count(res.events, "gameEnd", roomId),
                                  roundResults |-> 0,
                                  startScore |-> SumScores(room.players),
                                  steady |-> TRUE]]
                    /\ questionsDrawn' = questionsDrawn + Len(gameQuestions)
    /\ UNCHANGED <<songs, conn, socketData, timers>>

\* AnswerOutcome without the checks of roundActive (line 174) and of
\* winnerSocketId (line 183): every correct answer of a known player wins.
AnswerOutcomeUnguarded(rms, roomId, s, optionIndex) ==
    IF \/ roomId \notin DOMAIN rms
       \/ rms[roomId].currentQuestion = NullQuestion
    THEN "drop"
    ELSE IF ~HasPlayer(rms[roomId].players, s) THEN "drop"
    ELSE IF optionIndex = rms[roomId].currentQuestion.correctIndex THEN "win"
    ELSE "wrong"

\* The path the answer handler takes: "drop" (returns before emitting
\* anything), "late" (a winner is already recorded), "win" or "wrong".
AnswerOutcome(rms, roomId, s, optionIndex) ==
    IF \/ roomId \notin DOMAIN rms
       \/ ~rms[roomId].roundActive
       \/ rms[roomId].currentQuestion = NullQuestion
    THEN "drop"
    ELSE IF ~HasPlayer(rms[roomId].players, s) THEN "drop"
    ELSE IF rms[roomId].currentQuestion.winnerSocketId # NoSocket THEN "late"
    ELSE IF optionIndex = rms[roomId].currentQuestion.correctIndex THEN "win"
    ELSE "wrong"

\* AddPoint without the increment of line 188.
AddPointForgotten(player) == player

\* player.score += 1
AddPoint(player) == [player EXCEPT !.score = @ + 1]

\* SetTimeout that never schedules the callback.
SetTimeoutNever(tms, roomId) == tms

\* setTimeout(() => startNextRound(roomId), 3000): one more pending callback,
\* which remembers the room id only.
SetTimeout(tms, roomId) == Append(tms, [roomId |-> roomId, stale |-> FALSE])

\* socket.on('answer')
Answer(s, optionIndex) ==
    /\ conn[s] = "open"
    /\ last' = Inbound("answer", s, NoRoomId, NoName, optionIndex)
    /\ LET roomId == socketData[s].roomId
           outcome == AnswerOutcome(rooms, roomId, s, optionIndex)
       IN  IF outcome = "drop"
           THEN /\ out' = <<>>
                /\ UNCHANGED <<rooms, timers, obs>>
           ELSE LET room == rooms[roomId]
                    q == room.currentQuestion
                    isCorrect == optionIndex = q.correctIndex
                    answerResult == [type |-> "answerResult", to |-> s,
                                     isCorrect |-> isCorrect]
                IN  IF outcome = "win"
                    THEN LET i == PlayerAt(room.players, s)
                             player == AddPoint(room.players[i])
                             players == [room.players EXCEPT ![i] = player]
                         IN  /\ rooms' = RoomsSet(rooms, roomId,
                                    [room EXCEPT
                                       !.currentQuestion.winnerSocketId = s,
                                       !.roundActive = FALSE,
                                       !.players = players])
                             /\ out' = <<answerResult,
                                    [type |-> "roundResult", to |-> roomId,
                                     correctIndex |-> q.correctIndex,
                                     winner |-> [socketId |-> s,
                                                 name |-> player.name,
                                                 score |-> player.score],
                                     players |-> players]>>
                             /\ timers' = SetTimeout(timers, roomId)
                             /\ obs' = [obs EXCEPT ![roomId].roundResults = @ + 1]
                    ELSE /\ out' = <<answerResult>>
                         /\ UNCHANGED <<rooms, timers, obs>>
    /\ UNCHANGED <<songs, conn, socketData, questionsDrawn>>

\* The host after the departure of s: Object.keys(room.players)[0] or null
\* when s was the host, the old host otherwise.
NextHost(hostId, players, s) ==
    IF hostId = s
    THEN IF Len(players) > 0 THEN Keys(players)[1] ELSE NoSocket
    ELSE hostId

\* A timer whose room is deleted stays pending; stale records that the room
\* it was scheduled in is gone.
MarkStale(tms, roomId) ==
    [i \in DOMAIN tms |->
        IF tms[i].roomId = roomId THEN [tms[i] EXCEPT !.stale = TRUE]
        ELSE tms[i]]

\* socket.on('disconnect')
Disconnect(s) ==
    /\ conn[s] = "open"
    /\ conn' = [conn EXCEPT ![s] = "closed"]
    /\ last' = Inbound("disconnect", s, NoRoomId, NoName, NoIndex)
    /\ LET roomId == socketData[s].roomId IN
       IF roomId \notin DOMAIN rooms
       THEN /\ out' = <<>>
            /\ UNCHANGED <<rooms, timers, obs>>
       ELSE LET room == rooms[roomId]
                players == DeletePlayer(room.players, s)
                hostId == NextHost(room.hostId, players, s)
            IN  IF Len(players) = 0
                THEN /\ rooms' = RoomsDelete(rooms, roomId)
                     /\ out' = <<>>
                     /\ timers' = MarkStale(timers, roomId)
                     /\ obs' = [obs EXCEPT ![roomId] = NoObs]
                ELSE /\ rooms' = RoomsSet(rooms, roomId,
                            [room EXCEPT !.players = players,
                                         !.hostId = hostId])
                     /\ out' = <<[type |-> "roomState", to |-> roomId,
                                  roomId |-> roomId, hostId |-> hostId,
                                  players |-> players]>>
                     /\ timers' = timers
                     /\ obs' = [obs EXCEPT ![roomId].steady = FALSE]
    /\ UNCHANGED <<songs, socketData, questionsDrawn>>

\* The callback of setTimeout(() => startNextRound(roomId), 3000). All timers
\* have the same delay, so they fire in the order they were scheduled.
TimerFire ==
    /\ timers # <<>>
    /\ LET roomId == Head(timers).roomId IN
       /\ last' = Inbound("timer", NoSocket, roomId, NoName, NoIndex)
       /\ \E gen \in RoundChoices(rooms, roomId) :
          LET res == StartNextRound(rooms, roomId, gen) IN
          /\ rooms' = res.rooms
          /\ out' = res.events
          /\ obs' = [obs EXCEPT
                       ![roomId].questions =
                           @ + Count(res.events, "question", roomId),
                       ![roomId].gameEnds =
                           @ + Count(res.events, "gameEnd", roomId)]
    /\ timers' = Tail(timers)
    /\ UNCHANGED <<songs, conn, socketData, questionsDrawn>>

Next ==
    \/ \E s \in Sockets : Connect(s)
    \/ \E s \in Sockets, roomId \in RoomIds, name \in PlayerNames :
           JoinRoom(s, roomId, name)
    \/ \E s \in Sockets : StartGame(s)
    \/ \E s \in Sockets, optionIndex \in OptionIndexes : Answer(s, optionIndex)
    \/ \E s \in Sockets : Disconnect(s)
    \/ TimerFire

Spec == Init /\ [][Next]_vars

\* ------------------------------------------------------------------ claims
RoomOf(s) == socketData[s].roomId

Events(type) == {out[i] : i \in {k \in DOMAIN out : out[k].type = type}}

\* C1: a currentQuestion record's winnerSocketId changes at most once, from
\* null to the sender of the correct answer being processed, and a step that
\* does not start a new round leaves a recorded winner as it is.
C1_WinnerSetOnce ==
    [][\A r \in DOMAIN rooms \cap DOMAIN rooms' :
         LET q == rooms[r].currentQuestion
             q2 == rooms'[r].currentQuestion
         IN  (q # NullQuestion /\ Count(out', "question", r) = 0) =>
                 /\ q.winnerSocketId # NoSocket => q2 = q
                 /\ q2.winnerSocketId # q.winnerSocketId =>
                        /\ last'.kind = "answer"
                        /\ last'.sock = q2.winnerSocketId
                        /\ last'.optionIndex = q.correctIndex
                        /\ RoomOf(last'.sock) = r]_vars

\* A winner is recorded and another player of the room has since sent the
\* correct index.
C1_Witness ==
    \E r \in DOMAIN rooms :
        /\ rooms[r].currentQuestion.winnerSocketId # NoSocket
        /\ last.kind = "answer"
        /\ last.sock # rooms[r].currentQuestion.winnerSocketId
        /\ RoomOf(last.sock) = r
        /\ last.optionIndex = rooms[r].currentQuestion.correctIndex

\* C2: a correct answer to a round without winner broadcasts exactly one
\* roundResult naming the sender, whose score rises by 1 while every other
\* entry of players is unchanged; a correct answer of another player of the
\* room processed right after it broadcasts no roundResult and leaves the room
\* (scores and winner) unchanged.
C2_BackToBack ==
    [][/\ \A r \in DOMAIN rooms :
            (/\ last'.kind = "answer"
             /\ RoomOf(last'.sock) = r
             /\ HasPlayer(rooms[r].players, last'.sock)
             /\ rooms[r].roundActive
             /\ rooms[r].currentQuestion.winnerSocketId = NoSocket
             /\ last'.optionIndex = rooms[r].currentQuestion.correctIndex) =>
                /\ Count(out', "roundResult", r) = 1
                /\ \A e \in {out'[i] : i \in {k \in DOMAIN out' :
                                                out'[k].type = "roundResult"}} :
                       e.winner.socketId = last'.sock
                /\ rooms'[r].currentQuestion.winnerSocketId = last'.sock
                /\ Len(rooms'[r].players) = Len(rooms[r].players)
                /\ \A i \in DOMAIN rooms[r].players :
                       rooms'[r].players[i] =
                           IF rooms[r].players[i].id = last'.sock
                           THEN [rooms[r].players[i] EXCEPT !.score = @ + 1]
                           ELSE rooms[r].players[i]
       /\ \A r \in DOMAIN rooms :
            (/\ last.kind = "answer"
             /\ Count(out, "roundResult", r) = 1
             /\ last'.kind = "answer"
             /\ last'.sock # last.sock
             /\ RoomOf(last'.sock) = r
             /\ HasPlayer(rooms[r].players, last'.sock)
             /\ last'.optionIndex = rooms[r].currentQuestion.correctIndex) =>
                /\ Count(out', "roundResult", r) = 0
                /\ rooms' = rooms]_vars

\* Two players of a room have sent the correct index one after the other: the
\* first holds the round's only point and its timer is the only one pending.
C2_Witness ==
    \E r \in DOMAIN rooms :
        LET room == rooms[r] IN
        /\ last.kind = "answer"
        /\ RoomOf(last.sock) = r
        /\ HasPlayer(room.players, last.sock)
        /\ last.optionIndex = room.currentQuestion.correctIndex
        /\ room.currentQuestion.winnerSocketId \notin {NoSocket, last.sock}
        /\ out = <<>>
        /\ timers = <<[roomId |-> r, stale |-> FALSE]>>
        /\ SumScores(room.players) = 1
        /\ room.players[PlayerAt(room.players, last.sock)].score = 0

\* C3: an answer of a known player to a round whose winner is recorded gets
\* exactly one answerResult with isCorrect = (optionIndex = correctIndex), and
\* changes no room and schedules no timer.
C3_LateAnswerEchoed ==
    [][\A r \in DOMAIN rooms :
         (/\ last'.kind = "answer"
          /\ RoomOf(last'.sock) = r
          /\ HasPlayer(rooms[r].players, last'.sock)
          /\ rooms[r].currentQuestion # NullQuestion
          /\ rooms[r].currentQuestion.winnerSocketId # NoSocket) =>
             /\ out' = <<[type |-> "answerResult", to |-> last'.sock,
                          isCorrect |-> (last'.optionIndex =
                                 rooms[r].currentQuestion.correctIndex)]>>
             /\ rooms' = rooms
             /\ timers' = timers]_vars

\* C4: within a game, once gameIndex = Len(gameQuestions) no question event
\* is emitted, and the game never has more than one gameEnd event.
C4_OneGameEnd ==
    [][\A r \in DOMAIN rooms \cap DOMAIN rooms' :
         (/\ obs[r].started
          /\ rooms[r].gameIndex = Len(rooms[r].gameQuestions)
          /\ Count(out', "gameStart", r) = 0) =>
             /\ Count(out', "question", r) = 0
             /\ obs'[r].gameEnds <= 1]_vars

\* C5: the firing of a timer whose room was destroyed after it was scheduled
\* changes no room and emits no event.
C5_StaleTimerNoOp ==
    [][(last'.kind = "timer" /\ timers # <<>> /\ Head(timers).stale) =>
          (rooms' = rooms /\ out' = <<>>)]_vars

\* C6: every room of the registry has a host that is one of its players; when
\* the host of a room disconnects, the room is removed if no other player
\* remains and otherwise gets one of the other players as host.
HostIsPlayer ==
    \A r \in DOMAIN rooms :
        /\ rooms[r].hostId # NoSocket
        /\ HasPlayer(rooms[r].players, rooms[r].hostId)

C6_HostReassigned ==
    /\ []HostIsPlayer
    /\ [][last'.kind = "disconnect" =>
            \A r \in DOMAIN rooms :
                rooms[r].hostId = last'.sock =>
                    LET rest == PlayerIds(rooms[r].players) \ {last'.sock}
                    IN  IF rest = {}
                        THEN r \notin DOMAIN rooms'
                        ELSE /\ r \in DOMAIN rooms'
                             /\ rooms'[r].hostId \in rest]_vars

\* C7: the index of a question event equals the number of question events of
\* its game so far (so it starts at 1 and rises by 1 with each question) and
\* is at most the event's total.
C7_QuestionIndex ==
    \A e \in Events("question") :
        /\ e.index = obs[e.to].questions
        /\ e.index >= 1
        /\ e.index <= e.total

\* The second question of a game has been emitted.
C7_Witness == \E e \in Events("question") : e.index = 2 /\ e.total = 2

\* C8: a startGame of a connection whose room is absent or has another host
\* changes no room and emits no event.
C8_StartGameIgnored ==
    [][(/\ last'.kind = "startGame"
        /\ \/ RoomOf(last'.sock) \notin DOMAIN rooms
           \/ rooms[RoomOf(last'.sock)].hostId # last'.sock) =>
          (rooms' = rooms /\ out' = <<>> /\ timers' = timers)]_vars

\* A player who is not the host of its room has sent startGame.
C8_Witness ==
    /\ last.kind = "startGame"
    /\ RoomOf(last.sock) \in DOMAIN rooms
    /\ HasPlayer(rooms[RoomOf(last.sock)].players, last.sock)
    /\ rooms[RoomOf(last.sock)].hostId # last.sock
    /\ out = <<>>

\* C9: an answer whose sender has no room in the registry, whose room has no
\* active round or whose sender is no player of the room emits nothing,
\* changes no room and schedules no timer.
C9_AnswerDropped ==
    [][(/\ last'.kind = "answer"
        /\ \/ RoomOf(last'.sock) \notin DOMAIN rooms
           \/ ~rooms[RoomOf(last'.sock)].roundActive
           \/ ~HasPlayer(rooms[RoomOf(last'.sock)].players, last'.sock)) =>
          (out' = <<>> /\ rooms' = rooms /\ timers' = timers)]_vars

\* A player has sent the correct index of a round that is no longer active.
C9_Witness ==
    /\ last.kind = "answer"
    /\ RoomOf(last.sock) \in DOMAIN rooms
    /\ LET room == rooms[RoomOf(last.sock)] IN
       /\ HasPlayer(room.players, last.sock)
       /\ ~room.roundActive
       /\ room.currentQuestion # NullQuestion
       /\ last.optionIndex = room.currentQuestion.correctIndex
       /\ room.currentQuestion.winnerSocketId = last.sock
    /\ out = <<>>

\* A gameEnd event of a game all of whose N rounds were won, with no join and
\* no disconnect in the room since its startGame.
CleanGameEnds ==
    {e \in Events("gameEnd") :
        /\ e.to \in DOMAIN rooms
        /\ obs[e.to].started
        /\ obs[e.to].steady
        /\ obs[e.to].roundResults = Len(rooms[e.to].gameQuestions)}

\* C10 as stated: the scores carried by such a gameEnd sum to N.
C10_ScoresSumToN ==
    \A e \in CleanGameEnds :
        SumScores(e.players) = Len(rooms[e.to].gameQuestions)

\* C10 amended: the scores carried by such a gameEnd sum to N plus the sum of
\* the scores the players had when the game was started.
C10_ScoresGrowByN ==
    \A e \in CleanGameEnds :
        SumScores(e.players) =
            obs[e.to].startScore + Len(rooms[e.to].gameQuestions)

\* A game of two questions has ended with both rounds won.
C10_Witness ==
    \E e \in CleanGameEnds :
        Len(rooms[e.to].gameQuestions) = 2 /\ SumScores(e.players) = 2

\* C11: during a game, gameQuestions has min(10, size of the bank) pairwise
\* distinct entries of the bank, and the question of index k carries the
\* audioUrl of the k-th entry, whose title is the round's title; a step
\* without gameStart leaves gameQuestions as it is.
IsBankDraw(gameQuestions) ==
    /\ Len(gameQuestions) = Min(GameLength, Len(songs))
    /\ \A i \in DOMAIN gameQuestions :
           \E k \in DOMAIN songs : gameQuestions[i] = songs[k]
    /\ \A i, k \in DOMAIN gameQuestions :
           i # k => /\ gameQuestions[i] # gameQuestions[k]
                    /\ gameQuestions[i].title # gameQuestions[k].title

OptionBanks == {[i \in 1..n |-> Song(i)] : n \in 1..OptionBankSize}

InitOptions ==
    /\ songs \in OptionBanks
    /\ rooms = <<>>
    /\ conn = [s \in Sockets |-> "new"]
    /\ socketData = [s \in Sockets |-> [roomId |-> NoRoomId]]
    /\ timers = <<>>
    /\ out = <<>>
    /\ last = NoEvent
    /\ obs = [r \in RoomIds |-> NoObs]
    /\ questionsDrawn = 0

\* One call generateOptions(correctTitle) for a title of the bank; out holds
\* the returned {options, correctIndex}.
GenerateStep ==
    /\ \E i \in DOMAIN songs :
       \E gen \in GenerateOptions(songs, songs[i].title) :
           out' = <<[type |-> "options", to |-> songs[i].title,
                     options |-> gen.options,
                     correctIndex |-> gen.correctIndex]>>
    /\ last' = Inbound("generateOptions", NoSocket, NoRoomId, NoName, NoIndex)
    /\ UNCHANGED <<songs, rooms, conn, socketData, timers, obs, questionsDrawn>>

SpecOptions == InitOptions /\ [][GenerateStep]_vars

BankTitles == {songs[i].title : i \in DOMAIN songs}

\* C12: every result of generateOptions has min(4, 1 + number of other
\* titles) pairwise distinct options, all titles of the bank, with the correct
\* title exactly once, at position correctIndex.
C12_Options ==
    \A e \in Events("options") :
        /\ Len(e.options) =
               Min(WrongOptions + 1, 1 + Cardinality(BankTitles \ {e.to}))
        /\ \A i \in DOMAIN e.options : e.options[i] \in BankTitles
        /\ \A i, k \in DOMAIN e.options : i # k => e.options[i] # e.options[k]
        /\ Cardinality({i \in DOMAIN e.options : e.options[i] = e.to}) = 1
        /\ e.correctIndex \in 0..(Len(e.options) - 1)
        /\ e.options[e.correctIndex + 1] = e.to

\* Four options drawn from a bank of five, the correct title last.
C12_Witness ==
    \E e \in Events("options") :
        /\ Len(songs) = 5
        /\ Len(e.options) = 4
        /\ e.correctIndex = 3

\* Fewer than three wrong candidates: a bank of two gives two options.
C12_WitnessDegraded ==
    \E e \in Events("options") : Len(songs) = 2 /\ Len(e.options) = 2

\* C13: in every room, roundActive is true exactly when currentQuestion is
\* non-null and has no winner.
C13_RoundActive ==
    \A r \in DOMAIN rooms :
        rooms[r].roundActive <=>
            /\ rooms[r].currentQuestion # NullQuestion
            /\ rooms[r].currentQuestion.winnerSocketId = NoSocket

\* A room whose round was just won (flag cleared) next to a room whose round
\* is still open (flag set).
C13_Witness ==
    \E r, r2 \in DOMAIN rooms :
        /\ rooms[r].currentQuestion.winnerSocketId # NoSocket
        /\ ~rooms[r].roundActive
        /\ rooms[r2].currentQuestion # NullQuestion
        /\ rooms[r2].roundActive

\* C14: a room in which no game is in progress (no startGame accepted yet,
\* or gameEnd emitted since the last accepted startGame) has a null
\* currentQuestion.
C14_NoRoundBetweenGames ==
    \A r \in DOMAIN rooms :
        (~obs[r].started \/ obs[r].gameEnds >= 1) =>
            rooms[r].currentQuestion = NullQuestion

\* C15: a disconnected connection is a key of no room's players and no room's
\* hostId, and no room of the registry is left without players.
C15_GoneAfterDisconnect ==
    \A s \in Sockets :
        conn[s] = "closed" =>
            \A r \in DOMAIN rooms :
                /\ ~HasPlayer(rooms[r].players, s)
                /\ rooms[r].hostId # s
                /\ rooms[r].players # <<>>

\* C16: every room of the registry has a player; a room enters the registry
\* only by a joinRoom for its id, which makes the joiner its only player; a
\* room leaves the registry only by the disconnect of its only player, and
\* that disconnect removes it in the same step (whatever the state of its
\* round) and broadcasts nothing.
C16_RoomLifecycle ==
    /\ [](\A r \in DOMAIN rooms : rooms[r].players # <<>>)
    /\ [][\A r \in RoomIds :
            /\ (r \notin DOMAIN rooms /\ r \in DOMAIN rooms') =>
                   /\ last'.kind = "joinRoom"
                   /\ last'.roomId = r
                   /\ PlayerIds(rooms'[r].players) = {last'.sock}
            /\ (r \in DOMAIN rooms /\ r \notin DOMAIN rooms') =>
                   /\ last'.kind = "disconnect"
                   /\ RoomOf(last'.sock) = r
                   /\ PlayerIds(rooms[r].players) = {last'.sock}
            /\ (/\ last'.kind = "disconnect"
                /\ RoomOf(last'.sock) = r
                /\ r \in DOMAIN rooms
                /\ PlayerIds(rooms[r].players) \subseteq {last'.sock}) =>
                   /\ r \notin DOMAIN rooms'
                   /\ out' = <<>>]_vars

\* The only player of a room has left it in the middle of a game (the timer
\* of a round it won is still pending): the room is gone, nothing was sent.
C16_Witness ==
    /\ last.kind = "disconnect"
    /\ RoomOf(last.sock) \in RoomIds \ DOMAIN rooms
    /\ out = <<>>
    /\ \E i \in DOMAIN timers :
           timers[i].roomId = RoomOf(last.sock) /\ timers[i].stale

\* ------------------------------------------------- joins under two names
\* The same handlers with two names to join under, in one room id.
JoinNames == {"ann", "bob"}

NextNames ==
    \/ \E s \in Sockets : Connect(s)
    \/ \E s \in Sockets, name \in JoinNames : JoinRoom(s, RoomNames[1], name)
    \/ \E s \in Sockets : StartGame(s)
    \/ \E s \in Sockets, optionIndex \in OptionIndexes : Answer(s, optionIndex)
    \/ \E s \in Sockets : Disconnect(s)
    \/ TimerFire

SpecNames == Init /\ [][NextNames]_vars

\* C17: joinRoom makes the joiner host only of a room without host, sets the
\* joiner's entry to {name, score 0}, and leaves the other entries of players,
\* gameQuestions, gameIndex, currentQuestion and roundActive as they were (as
\* at creation for a room it creates).
C17_JoinFrame ==
    [][last'.kind = "joinRoom" =>
         LET r == last'.roomId
             s == last'.sock
             isNew == r \notin DOMAIN rooms
             new == rooms'[r]
             oldHost == IF isNew THEN NoSocket ELSE rooms[r].hostId
             oldPlayers == IF isNew THEN <<>> ELSE rooms[r].players
         IN  /\ r \in DOMAIN rooms'
             /\ new.hostId = IF oldHost = NoSocket THEN s ELSE oldHost
             /\ PlayerIds(new.players) = PlayerIds(oldPlayers) \cup {s}
             /\ Len(new.players) = Cardinality(PlayerIds(new.players))
             /\ \A i \in DOMAIN new.players :
                    IF new.players[i].id = s
                    THEN new.players[i] =
                             [id |-> s, name |-> last'.name, score |-> 0]
                    ELSE \E k \in DOMAIN oldPlayers :
                             oldPlayers[k] = new.players[i]
             /\ new.gameQuestions = IF isNew THEN <<>> ELSE rooms[r].gameQuestions
             /\ new.gameIndex = IF isNew THEN 0 ELSE rooms[r].gameIndex
             /\ new.currentQuestion =
                    IF isNew THEN NullQuestion ELSE rooms[r].currentQuestion
             /\ new.roundActive = IF isNew THEN FALSE ELSE rooms[r].roundActive
             /\ \A r2 \in DOMAIN rooms \ {r} :
                    r2 \in DOMAIN rooms' /\ rooms'[r2] = rooms[r2]]_vars

\* The winner of the current round has joined its room again under the other
\* name: its score is back to 0, the other player keeps its point and the
\* host is still the first joiner.
C17_Witness ==
    \E r \in DOMAIN rooms :
        LET room == rooms[r] IN
        /\ last.kind = "joinRoom"
        /\ last.roomId = r
        /\ last.name = "bob"
        /\ room.currentQuestion.winnerSocketId = last.sock
        /\ room.hostId # last.sock
        /\ Len(room.players) = 2
        /\ room.players[PlayerAt(room.players, last.sock)] =
               [id |-> last.sock, name |-> "bob", score |-> 0]
        /\ room.players[PlayerAt(room.players, room.hostId)].score = 1

\* ------------------------------------------------------------- liveness
\* Node fires every pending timer: the callback of setTimeout is not left
\* pending for ever. SpecLive has both room ids; SpecLiveRoom is the same
\* with the joins of NextNames (one room id), small enough for the liveness
\* graph to be built quickly.
SpecLive == Init /\ [][Next]_vars /\ WF_vars(TimerFire)

SpecLiveRoom == Init /\ [][NextNames]_vars /\ WF_vars(TimerFire)

RoundOpen(r) == r \in DOMAIN rooms /\ rooms[r].roundActive

GameRunning(r) == r \in DOMAIN rooms /\ obs[r].started

C19_TimerFindsRoundClosed ==
    [][(last'.kind = "timer" /\ last'.roomId \in DOMAIN rooms)
          => ~rooms[last'.roomId].roundActive]_vars

ScoreOf(players, id) ==
    IF HasPlayer(players, id) THEN players[PlayerAt(players, id)].score ELSE 0

\* C20: once gameEnd was emitted in a room, and until the next accepted
\* startGame there, no step broadcasts roundResult to the room or raises the
\* score of one of its players.
C20_ScoresFinal ==
    [][\A r \in DOMAIN rooms \cap DOMAIN rooms' :
          (obs[r].started /\ obs[r].gameEnds >= 1
              /\ Count(out', "gameStart", r) = 0)
          => /\ Count(out', "roundResult", r) = 0
             /\ \A s \in PlayerIds(rooms[r].players) :
                   ScoreOf(rooms'[r].players, s)
                       <= ScoreOf(rooms[r].players, s)]_vars
====
